---- MODULE Spec2Model ----
(***************************************************************************)
(* The SpinButton component of office-ui-fabric-react                      *)
(* (src/packages/office-ui-fabric-react/src/components/SpinButton/         *)
(* SpinButton.tsx) as a state machine: the component's fields and React    *)
(* state, its props, the timers of its Async instance, and one action per  *)
(* event handler or lifecycle method.                                      *)
(*                                                                         *)
(* Texts (the strings the component stores and displays) are sequences of  *)
(* one-character strings.  Numbers are fixed-point decimals with Frac      *)
(* fraction digits, or NaN.                                                *)
(***************************************************************************)
EXTENDS Integers, Sequences, FiniteSets, TLC

\* ------------------------------------------------------------------ bounds

\* Fraction digits a number of the model keeps.
Frac == 1

\* Largest number of timers pending at once before pointer-downs are withheld.
MaxTimers == 2

\* Time that passes in one Tick of the fine-grained clock (SpecTimed).
TickLen == 50

\* --------------------------------------------------------------- JS numbers

\* The radix of JS decimal literals and of precisionRound's default base.
Base == 10

RECURSIVE Pow(_, _)
Pow(b, e) == IF e <= 0 THEN 1 ELSE b * Pow(b, e - 1)

\* One unit of the integer part, in the fixed-point representation.
One == Pow(Base, Frac)

NaN == [nan |-> TRUE, v |-> 0]
Num(n) == [nan |-> FALSE, v |-> n]

\* IEEE comparisons: every comparison with NaN is false.
NumLE(a, b) == ~a.nan /\ ~b.nan /\ a.v <= b.v
NumGE(a, b) == ~a.nan /\ ~b.nan /\ a.v >= b.v
NumEq(a, b) == ~a.nan /\ ~b.nan /\ a.v = b.v

NumAdd(a, b) == IF a.nan \/ b.nan THEN NaN ELSE Num(a.v + b.v)
NumSub(a, b) == IF a.nan \/ b.nan THEN NaN ELSE Num(a.v - b.v)

\* Math.min / Math.max: NaN when either argument is NaN.
MathMin(a, b) == IF a.nan \/ b.nan THEN NaN ELSE IF a.v <= b.v THEN a ELSE b
MathMax(a, b) == IF a.nan \/ b.nan THEN NaN ELSE IF a.v >= b.v THEN a ELSE b

\* ------------------------------------------------------------------- texts

DigitChars == <<"0", "1", "2", "3", "4", "5", "6", "7", "8", "9">>
IsDigit(c) == \E i \in 1..Len(DigitChars) : DigitChars[i] = c
DigitVal(c) == (CHOOSE i \in 1..Len(DigitChars) : DigitChars[i] = c) - 1

\* String.prototype.trim, for the blank character of the model.
RECURSIVE TrimLeft(_)
TrimLeft(s) == IF s # <<>> /\ Head(s) = " " THEN TrimLeft(Tail(s)) ELSE s

RECURSIVE TrimRight(_)
TrimRight(s) ==
  IF s # <<>> /\ s[Len(s)] = " " THEN TrimRight(SubSeq(s, 1, Len(s) - 1)) ELSE s

trim(s) == TrimRight(TrimLeft(s))

\* Index of the first occurrence of c in s, 0 when there is none.
IndexOf(s, c) ==
  IF \E i \in 1..Len(s) : s[i] = c
  THEN CHOOSE i \in 1..Len(s) : s[i] = c /\ \A j \in 1..(i - 1) : s[j] # c
  ELSE 0

AllDigits(s) == \A i \in 1..Len(s) : IsDigit(s[i])

\* Value of a digit string read as a natural number.
RECURSIVE DigitsVal(_)
DigitsVal(s) ==
  IF s = <<>> THEN 0 ELSE DigitsVal(SubSeq(s, 1, Len(s) - 1)) * Base + DigitVal(s[Len(s)])

\* Value of the fraction digits f in units of Base^-Frac (digits past Frac are
\* beyond the resolution of the model and dropped).
FracVal(f) ==
  IF Len(f) >= Frac THEN DigitsVal(SubSeq(f, 1, Frac))
  ELSE DigitsVal(f) * Pow(Base, Frac - Len(f))

\* An unsigned decimal literal: digits, with at most one point and at least one digit.
UnsignedOk(s) ==
  LET dot == IndexOf(s, ".")
      ip  == IF dot = 0 THEN s ELSE SubSeq(s, 1, dot - 1)
      fp  == IF dot = 0 THEN <<>> ELSE SubSeq(s, dot + 1, Len(s))
  IN  AllDigits(ip) /\ AllDigits(fp) /\ Len(ip) + Len(fp) > 0

UnsignedVal(s) ==
  LET dot == IndexOf(s, ".")
      ip  == IF dot = 0 THEN s ELSE SubSeq(s, 1, dot - 1)
      fp  == IF dot = 0 THEN <<>> ELSE SubSeq(s, dot + 1, Len(s))
  IN  DigitsVal(ip) * One + FracVal(fp)

\* Number(text): blank text is 0, a signed decimal literal is its value, anything
\* else is NaN.
Number(t) ==
  LET s    == trim(t)
      neg  == s # <<>> /\ Head(s) = "-"
      body == IF s # <<>> /\ Head(s) \in {"-", "+"} THEN Tail(s) ELSE s
  IN  IF s = <<>> THEN Num(0)
      ELSE IF ~UnsignedOk(body) THEN NaN
      ELSE Num(IF neg THEN 0 - UnsignedVal(body) ELSE UnsignedVal(body))

isNaN(n) == n.nan

\* The decimal digits of a natural number.
RECURSIVE NatDigits(_)
NatDigits(n) ==
  IF n < Base THEN <<DigitChars[n + 1]>>
  ELSE NatDigits(n \div Base) \o <<DigitChars[(n % Base) + 1]>>

\* The digits of n padded with leading zeros to width w.
RECURSIVE PadDigits(_, _)
PadDigits(n, w) == IF w <= 0 THEN <<>> ELSE PadDigits(n \div Base, w - 1) \o <<DigitChars[(n % Base) + 1]>>

RECURSIVE StripZeros(_)
StripZeros(s) ==
  IF s # <<>> /\ s[Len(s)] = "0" THEN StripZeros(SubSeq(s, 1, Len(s) - 1)) ELSE s

\* String(number): "NaN", or the shortest decimal form.
String(n) ==
  IF n.nan THEN <<"N", "a", "N">>
  ELSE LET a  == IF n.v < 0 THEN 0 - n.v ELSE n.v
           fp == StripZeros(PadDigits(a % One, Frac))
       IN  (IF n.v < 0 THEN <<"-">> ELSE <<>>)
           \o NatDigits(a \div One)
           \o (IF fp = <<>> THEN <<>> ELSE <<".">> \o fp)

\* ------------------------------------------------- numeric-precision utility

\* calculatePrecision(value): the number of digits after the point of String(value);
\* minus the number of trailing zeros when there is no point.
RECURSIVE TrailingZeros(_)
TrailingZeros(s) ==
  IF s # <<>> /\ s[Len(s)] = "0" THEN 1 + TrailingZeros(SubSeq(s, 1, Len(s) - 1)) ELSE 0

calculatePrecision(value) ==
  LET s   == String(value)
      dot == IndexOf(s, ".")
  IN  IF dot > 0 THEN Len(s) - dot
      ELSE IF TrailingZeros(s) > 0 /\ TrailingZeros(s) < Len(s) THEN 0 - TrailingZeros(s)
      ELSE 0

\* Math.round: the nearest multiple of m, halves going up.
RoundTo(v, m) == ((v + (m \div 2)) \div m) * m

\* precisionRound(value, precision): Math.round(value * 10^precision) / 10^precision.
precisionRound(value, precision) ==
  IF value.nan THEN NaN
  ELSE IF precision >= Frac THEN value
  ELSE Num(RoundTo(value.v, Pow(Base, Frac - precision)))

\* ------------------------------------------------------------ optional values

\* A value that may be undefined: def says whether it is there.
Undefined(blank) == [def |-> FALSE, v |-> blank]
Some(x) == [def |-> TRUE, v |-> x]

undefinedText == Undefined(<<>>)
undefinedNumber == Undefined(0)

\* JS truthiness of a string | void: a non-empty string.
Truthy(r) == r.def /\ r.v # <<>>

\* --------------------------------------------------------------- the state

VARIABLES
  props,                       \* this.props: min, max, step, precision?, disabled, value?,
                               \*   onValidate?, onIncrement?, onDecrement?
  state,                       \* this.state: isFocused, value, keyboardSpinDirection
  _lastValidValue,             \* string
  _spinningByMouse,            \* boolean
  _valueToValidate,            \* string | undefined
  _precision,                  \* number
  _currentStepFunctionHandle,  \* id of the timer scheduled last, -1 when none
  _async,                      \* the Async instance: pending timers, disposed flag
  mounted,                     \* FALSE once componentWillUnmount has run
  elapsed,                     \* time since the last step made by pointer-down or by a repeat
  lastStepBy                   \* what made that step: "none", "mouse" or "timer"

vars == <<props, state, _lastValidValue, _spinningByMouse, _valueToValidate, _precision,
          _currentStepFunctionHandle, _async, mounted, elapsed, lastStepBy>>

KeyboardSpinDirection == [down |-> -1, notSpinning |-> 0, up |-> 1]

_initialStepDelay == 400
_stepDelay == 75

\* ------------------------------------------------------------------- Async

\* A pending timer: its id, the step function its callback closes over, and the time
\* left before it is due.
Timer(id, stepFunction, duration) == [id |-> id, stepFunction |-> stepFunction, rem |-> duration]

TimerIds(pending) == {t.id : t \in pending}

\* The id setTimeout returns: a positive id no pending timer has.  (Ids of timers that
\* fired or were cleared are handed out again: the component only ever compares its
\* handle with -1 and passes it to clearTimeout.)
NewTimerId(pending) == CHOOSE i \in 1..(Cardinality(pending) + 1) : i \notin TimerIds(pending)

\* Async.setTimeout: the pending timers after scheduling one more.
AsyncSetTimeout(pending, stepFunction, duration) ==
  pending \cup {Timer(NewTimerId(pending), stepFunction, duration)}

\* Async.clearTimeout(id): nothing when no pending timer has that id.
AsyncClearTimeout(pending, id) == {t \in pending : t.id # id}

\* Async.dispose: every pending timer is cleared and the instance is disposed.
AsyncDispose(a) == [timeoutIds |-> {}, isDisposed |-> TRUE]

\* ------------------------------------------------------------- the policies

\* get value(): the controlled value when the props give one, else the state's.
value == IF props.value.def THEN props.value.v ELSE state.value

_calculatePrecision(p) ==
  IF p.precision.def THEN p.precision.v
  ELSE IF calculatePrecision(p.step) > 0 THEN calculatePrecision(p.step) ELSE 0

_defaultOnValidate(v) ==
  IF Len(trim(v)) = 0 \/ isNaN(Number(v)) THEN Some(_lastValidValue)
  ELSE Some(String(MathMin(props.max, MathMax(props.min, Number(v)))))

\* A function the caller supplies in the props (onValidate, onIncrement, onDecrement),
\* of type (value) => string | void: "declines" returns nothing, "accepts" returns a
\* text (the typed text as it is; the maximum; the minimum).  "undefined": not supplied.
CallerFunctions == {"declines", "accepts"}

CallerResult(f, accepted) == IF f = "accepts" THEN Some(accepted) ELSE undefinedText

_onValidate(v) ==
  IF props.onValidate # "undefined" THEN CallerResult(props.onValidate, v)
  ELSE _defaultOnValidate(v)

\* Each local of the source is bound to its value once, as the code computes it:
\* the sum, newValue clamped, newValue rounded.
_defaultOnIncrement(v) ==
  CHOOSE r \in { Some(String(rounded)) :
                   rounded \in { precisionRound(newValue, _precision) :
                     newValue \in { MathMin(sum, props.max) :
                       sum \in { NumAdd(n, props.step) : n \in {Number(v)} } } } } : TRUE

_onIncrement(v) ==
  IF props.onIncrement # "undefined" THEN CallerResult(props.onIncrement, String(props.max))
  ELSE _defaultOnIncrement(v)

\* Mutant: the decrement that adds the step, as the increment does.
_defaultOnDecrement_adds(v) ==
  CHOOSE r \in { Some(String(rounded)) :
                   rounded \in { precisionRound(newValue, _precision) :
                     newValue \in { MathMax(diff, props.min) :
                       diff \in { NumAdd(n, props.step) : n \in {Number(v)} } } } } : TRUE

_defaultOnDecrement(v) ==
  CHOOSE r \in { Some(String(rounded)) :
                   rounded \in { precisionRound(newValue, _precision) :
                     newValue \in { MathMax(diff, props.min) :
                       diff \in { NumSub(n, props.step) : n \in {Number(v)} } } } } : TRUE

_onDecrement(v) ==
  IF props.onDecrement # "undefined" THEN CallerResult(props.onDecrement, String(props.min))
  ELSE _defaultOnDecrement(v)

\* The step function handed to _updateValue, "_onIncrement" or "_onDecrement", called.
CallStep(stepFunction, v) ==
  IF stepFunction = "_onIncrement" THEN _onIncrement(v) ELSE _onDecrement(v)

\* ------------------------------------------------------------ shared helpers

NotSpinning == KeyboardSpinDirection.notSpinning

\* this.setState(patch) on an unmounted component changes nothing.
SetValue(st, v) == IF mounted THEN [st EXCEPT !.value = v] ELSE st

\* Mutant: the stop that leaves the keyboard spin direction as it is.
_stop_keepsDirection(st) ==
  /\ _async' = IF _currentStepFunctionHandle >= 0
               THEN [_async EXCEPT !.timeoutIds = AsyncClearTimeout(@, _currentStepFunctionHandle)]
               ELSE _async
  /\ _currentStepFunctionHandle' =
       IF _currentStepFunctionHandle >= 0 THEN -1 ELSE _currentStepFunctionHandle
  /\ _spinningByMouse' = FALSE
  /\ state' = st
  /\ elapsed' = 0
  /\ lastStepBy' = "none"

\* _stop(): clears the timer the handle names and ends the spin.  st is this.state
\* with the handler's other setState calls merged in.
_stop(st) ==
  /\ _async' = IF _currentStepFunctionHandle >= 0
               THEN [_async EXCEPT !.timeoutIds = AsyncClearTimeout(@, _currentStepFunctionHandle)]
               ELSE _async
  /\ _currentStepFunctionHandle' =
       IF _currentStepFunctionHandle >= 0 THEN -1 ELSE _currentStepFunctionHandle
  /\ IF _spinningByMouse \/ state.keyboardSpinDirection # NotSpinning
     THEN /\ _spinningByMouse' = FALSE
          /\ state' = [st EXCEPT !.keyboardSpinDirection = NotSpinning]
     ELSE /\ UNCHANGED _spinningByMouse
          /\ state' = st
  /\ elapsed' = 0
  /\ lastStepBy' = "none"

\* Mutant: the update that commits whatever stepFunction returns, nothing included.
_updateValue_commitsAnything(shouldSpin, stepDelay, stepFunction, pending, st) ==
  LET newValue == CallStep(stepFunction, value)
  IN  /\ _lastValidValue' = newValue.v
      /\ state' = SetValue(st, newValue.v)
      /\ _spinningByMouse' = shouldSpin
      /\ IF shouldSpin
         THEN /\ _async' = [_async EXCEPT !.timeoutIds = AsyncSetTimeout(pending, stepFunction, stepDelay)]
              /\ _currentStepFunctionHandle' = NewTimerId(pending)
         ELSE /\ _async' = [_async EXCEPT !.timeoutIds = pending]
              /\ UNCHANGED _currentStepFunctionHandle

\* _updateValue(shouldSpin, stepDelay, stepFunction).  pending are the timers pending
\* when it is called; st is this.state with the handler's other setState calls merged in.
_updateValue(shouldSpin, stepDelay, stepFunction, pending, st) ==
  LET newValue == CallStep(stepFunction, value)
  IN  /\ IF Truthy(newValue)
         THEN /\ _lastValidValue' = newValue.v
              /\ state' = SetValue(st, newValue.v)
         ELSE /\ UNCHANGED _lastValidValue
              /\ state' = st
      /\ _spinningByMouse' = shouldSpin
      /\ IF shouldSpin
         THEN /\ _async' = [_async EXCEPT !.timeoutIds = AsyncSetTimeout(pending, stepFunction, stepDelay)]
              /\ _currentStepFunctionHandle' = NewTimerId(pending)
         ELSE /\ _async' = [_async EXCEPT !.timeoutIds = pending]
              /\ UNCHANGED _currentStepFunctionHandle

\* _validate(event): commits what the validator makes of the pending text.
_validate(st) ==
  IF /\ _valueToValidate.def
     /\ _valueToValidate.v # _lastValidValue
     /\ Truthy(_onValidate(_valueToValidate.v))
  THEN /\ _lastValidValue' = _onValidate(_valueToValidate.v).v
       /\ _valueToValidate' = undefinedText
       /\ state' = SetValue(st, _onValidate(_valueToValidate.v).v)
  ELSE /\ UNCHANGED <<_lastValidValue, _valueToValidate>>
       /\ state' = st

\* ----------------------------------------------------------------- actions

Keys == {"up", "down", "enter", "escape", "other"}

\* Mutant: the unmount that leaves the timers of its Async instance pending.
componentWillUnmount_keepsTimers ==
  /\ mounted
  /\ mounted' = FALSE
  /\ UNCHANGED <<props, state, _lastValidValue, _spinningByMouse, _valueToValidate,
                 _precision, _currentStepFunctionHandle, _async, elapsed, lastStepBy>>

componentWillUnmount ==
  /\ mounted
  /\ mounted' = FALSE
  /\ _async' = AsyncDispose(_async)
  /\ UNCHANGED <<props, state, _lastValidValue, _spinningByMouse, _valueToValidate,
                 _precision, _currentStepFunctionHandle, elapsed, lastStepBy>>

\* Mutant: the props update that keeps the precision derived from the old props.
UNSAFE_componentWillReceiveProps_keepsPrecision(newProps) ==
  /\ mounted
  /\ _lastValidValue' = state.value
  /\ state' = IF newProps.value.def THEN [state EXCEPT !.value = newProps.value.v] ELSE state
  /\ props' = newProps
  /\ UNCHANGED <<_spinningByMouse, _valueToValidate, _precision, _currentStepFunctionHandle,
                 _async, mounted, elapsed, lastStepBy>>

UNSAFE_componentWillReceiveProps(newProps) ==
  /\ mounted
  /\ _lastValidValue' = state.value
  /\ state' = IF newProps.value.def THEN [state EXCEPT !.value = newProps.value.v] ELSE state
  /\ _precision' = _calculatePrecision(newProps)
  /\ props' = newProps
  /\ UNCHANGED <<_spinningByMouse, _valueToValidate, _currentStepFunctionHandle, _async,
                 mounted, elapsed, lastStepBy>>

_onFocus ==
  /\ mounted
  /\ IF _spinningByMouse \/ state.keyboardSpinDirection # NotSpinning
     THEN _stop([state EXCEPT !.isFocused = TRUE])
     ELSE /\ state' = [state EXCEPT !.isFocused = TRUE]
          /\ UNCHANGED <<_spinningByMouse, _currentStepFunctionHandle, _async, elapsed, lastStepBy>>
  /\ UNCHANGED <<props, _lastValidValue, _valueToValidate, _precision, mounted>>

_onBlur ==
  /\ mounted
  /\ _validate([state EXCEPT !.isFocused = FALSE])
  /\ UNCHANGED <<props, _spinningByMouse, _precision, _currentStepFunctionHandle, _async,
                 mounted, elapsed, lastStepBy>>

\* Mutant: the text change that commits the raw text at once.
_onInputChange_commits(text) ==
  /\ mounted
  /\ ~props.disabled
  /\ _valueToValidate' = Some(text)
  /\ _lastValidValue' = text
  /\ state' = [state EXCEPT !.value = text]
  /\ UNCHANGED <<props, _spinningByMouse, _precision,
                 _currentStepFunctionHandle, _async, mounted, elapsed, lastStepBy>>

_onInputChange(text) ==
  /\ mounted
  /\ ~props.disabled
  /\ _valueToValidate' = Some(text)
  /\ state' = [state EXCEPT !.value = text]
  /\ UNCHANGED <<props, _lastValidValue, _spinningByMouse, _precision,
                 _currentStepFunctionHandle, _async, mounted, elapsed, lastStepBy>>

\* Mutant: the key-down whose Escape leaves the displayed text as it is.
_handleKeyDown_escapeKeepsText(key) ==
  /\ mounted
  /\ IF props.disabled
     THEN /\ _stop(state)
          /\ UNCHANGED <<_lastValidValue, _valueToValidate>>
     ELSE /\ CASE key = "up" ->
                   /\ _updateValue(FALSE, _initialStepDelay, "_onIncrement", _async.timeoutIds,
                                   [state EXCEPT !.keyboardSpinDirection = KeyboardSpinDirection.up])
                   /\ UNCHANGED _valueToValidate
               [] key = "down" ->
                   /\ _updateValue(FALSE, _initialStepDelay, "_onDecrement", _async.timeoutIds,
                                   [state EXCEPT !.keyboardSpinDirection = KeyboardSpinDirection.down])
                   /\ UNCHANGED _valueToValidate
               [] key = "enter" ->
                   /\ _validate([state EXCEPT !.keyboardSpinDirection = NotSpinning])
                   /\ UNCHANGED <<_spinningByMouse, _currentStepFunctionHandle, _async>>
               [] key = "escape" ->
                   /\ state' = [state EXCEPT !.keyboardSpinDirection = NotSpinning]
                   /\ UNCHANGED <<_lastValidValue, _valueToValidate, _spinningByMouse,
                                  _currentStepFunctionHandle, _async>>
               [] OTHER ->
                   /\ state' = [state EXCEPT !.keyboardSpinDirection = NotSpinning]
                   /\ UNCHANGED <<_lastValidValue, _valueToValidate, _spinningByMouse,
                                  _currentStepFunctionHandle, _async>>
          /\ UNCHANGED <<elapsed, lastStepBy>>
  /\ UNCHANGED <<props, _precision, mounted>>

\* Mutant: the key-down whose Up arrow asks _updateValue to keep spinning.
_handleKeyDown_upSpins(key) ==
  /\ mounted
  /\ IF props.disabled
     THEN /\ _stop(state)
          /\ UNCHANGED <<_lastValidValue, _valueToValidate>>
     ELSE /\ CASE key = "up" ->
                   /\ _updateValue(TRUE, _initialStepDelay, "_onIncrement", _async.timeoutIds,
                                   [state EXCEPT !.keyboardSpinDirection = KeyboardSpinDirection.up])
                   /\ UNCHANGED _valueToValidate
               [] key = "down" ->
                   /\ _updateValue(FALSE, _initialStepDelay, "_onDecrement", _async.timeoutIds,
                                   [state EXCEPT !.keyboardSpinDirection = KeyboardSpinDirection.down])
                   /\ UNCHANGED _valueToValidate
               [] key = "enter" ->
                   /\ _validate([state EXCEPT !.keyboardSpinDirection = NotSpinning])
                   /\ UNCHANGED <<_spinningByMouse, _currentStepFunctionHandle, _async>>
               [] key = "escape" ->
                   /\ state' = IF value # _lastValidValue
                               THEN [state EXCEPT !.value = _lastValidValue,
                                                  !.keyboardSpinDirection = NotSpinning]
                               ELSE [state EXCEPT !.keyboardSpinDirection = NotSpinning]
                   /\ UNCHANGED <<_lastValidValue, _valueToValidate, _spinningByMouse,
                                  _currentStepFunctionHandle, _async>>
               [] OTHER ->
                   /\ state' = [state EXCEPT !.keyboardSpinDirection = NotSpinning]
                   /\ UNCHANGED <<_lastValidValue, _valueToValidate, _spinningByMouse,
                                  _currentStepFunctionHandle, _async>>
          /\ UNCHANGED <<elapsed, lastStepBy>>
  /\ UNCHANGED <<props, _precision, mounted>>

_handleKeyDown(key) ==
  /\ mounted
  /\ IF props.disabled
     THEN /\ _stop(state)
          /\ UNCHANGED <<_lastValidValue, _valueToValidate>>
     ELSE /\ CASE key = "up" ->
                   /\ _updateValue(FALSE, _initialStepDelay, "_onIncrement", _async.timeoutIds,
                                   [state EXCEPT !.keyboardSpinDirection = KeyboardSpinDirection.up])
                   /\ UNCHANGED _valueToValidate
               [] key = "down" ->
                   /\ _updateValue(FALSE, _initialStepDelay, "_onDecrement", _async.timeoutIds,
                                   [state EXCEPT !.keyboardSpinDirection = KeyboardSpinDirection.down])
                   /\ UNCHANGED _valueToValidate
               [] key = "enter" ->
                   /\ _validate([state EXCEPT !.keyboardSpinDirection = NotSpinning])
                   /\ UNCHANGED <<_spinningByMouse, _currentStepFunctionHandle, _async>>
               [] key = "escape" ->
                   /\ state' = IF value # _lastValidValue
                               THEN [state EXCEPT !.value = _lastValidValue,
                                                  !.keyboardSpinDirection = NotSpinning]
                               ELSE [state EXCEPT !.keyboardSpinDirection = NotSpinning]
                   /\ UNCHANGED <<_lastValidValue, _valueToValidate, _spinningByMouse,
                                  _currentStepFunctionHandle, _async>>
               [] OTHER ->
                   /\ state' = [state EXCEPT !.keyboardSpinDirection = NotSpinning]
                   /\ UNCHANGED <<_lastValidValue, _valueToValidate, _spinningByMouse,
                                  _currentStepFunctionHandle, _async>>
          /\ UNCHANGED <<elapsed, lastStepBy>>
  /\ UNCHANGED <<props, _precision, mounted>>

_handleKeyUp(key) ==
  /\ mounted
  /\ IF props.disabled \/ key = "up" \/ key = "down"
     THEN _stop(state)
     ELSE UNCHANGED <<state, _spinningByMouse, _currentStepFunctionHandle, _async, elapsed, lastStepBy>>
  /\ UNCHANGED <<props, _lastValidValue, _valueToValidate, _precision, mounted>>

\* Mutant: the pointer-down that schedules its first repeat after _stepDelay.
_onIncrementMouseDown_stepDelay ==
  /\ mounted
  /\ ~props.disabled
  /\ Cardinality(_async.timeoutIds) < MaxTimers
  /\ _updateValue(TRUE, _stepDelay, "_onIncrement", _async.timeoutIds, state)
  /\ elapsed' = 0
  /\ lastStepBy' = "mouse"
  /\ UNCHANGED <<props, _valueToValidate, _precision, mounted>>

\* The arrow buttons are rendered disabled with the component and take no pointer-down then.
_onIncrementMouseDown ==
  /\ mounted
  /\ ~props.disabled
  /\ Cardinality(_async.timeoutIds) < MaxTimers
  /\ _updateValue(TRUE, _initialStepDelay, "_onIncrement", _async.timeoutIds, state)
  /\ elapsed' = 0
  /\ lastStepBy' = "mouse"
  /\ UNCHANGED <<props, _valueToValidate, _precision, mounted>>

_onDecrementMouseDown ==
  /\ mounted
  /\ ~props.disabled
  /\ Cardinality(_async.timeoutIds) < MaxTimers
  /\ _updateValue(TRUE, _initialStepDelay, "_onDecrement", _async.timeoutIds, state)
  /\ elapsed' = 0
  /\ lastStepBy' = "mouse"
  /\ UNCHANGED <<props, _valueToValidate, _precision, mounted>>

\* onMouseUp and onMouseLeave of either arrow button: _stop.
MouseUpOrLeave ==
  /\ mounted
  /\ _stop(state)
  /\ UNCHANGED <<props, _lastValidValue, _valueToValidate, _precision, mounted>>

\* The callback of a due timer: the timer is gone, and _updateValue runs again with
\* shouldSpin and the step function it closed over, and _stepDelay.
TimerFire(t) ==
  /\ t \in _async.timeoutIds
  /\ t.rem = 0
  /\ _updateValue(TRUE, _stepDelay, t.stepFunction, _async.timeoutIds \ {t}, state)
  /\ elapsed' = 0
  /\ lastStepBy' = "timer"
  /\ UNCHANGED <<props, _valueToValidate, _precision, mounted>>

\* Some due timer's callback runs.
TimerCallback == \E t \in _async.timeoutIds : TimerFire(t)

\* Time d passes: every pending timer comes d closer to being due.
Tick(d) ==
  /\ \E t \in _async.timeoutIds : t.rem > 0
  /\ _async' = [_async EXCEPT !.timeoutIds =
                  {[t EXCEPT !.rem = IF t.rem > d THEN t.rem - d ELSE 0] : t \in @}]
  /\ elapsed' = IF lastStepBy = "none" THEN elapsed
                ELSE IF elapsed + d > _initialStepDelay THEN _initialStepDelay ELSE elapsed + d
  /\ UNCHANGED <<props, state, _lastValidValue, _spinningByMouse, _valueToValidate,
                 _precision, _currentStepFunctionHandle, mounted, lastStepBy>>

\* ------------------------------------------------------------ configurations

\* The props the component is given: the defaults (step 1, min 0) with a small max,
\* the same disabled, the same with a controlled value, and a min off the step's grid.
DefaultProps ==
  [min |-> Number(<<"0">>), max |-> Number(<<"3">>), step |-> Number(<<"1">>),
   precision |-> undefinedNumber, disabled |-> FALSE, value |-> undefinedText,
   onValidate |-> "undefined", onIncrement |-> "undefined", onDecrement |-> "undefined"]

PropsSet ==
  { DefaultProps,
    [DefaultProps EXCEPT !.disabled = TRUE],
    [DefaultProps EXCEPT !.value = Some(<<"2">>)],
    [DefaultProps EXCEPT !.min = Number(<<"1", ".", "4">>)] }

\* defaultValue, when the props give one.
DefaultValues == {undefinedText, Some(<<"2">>)}

\* What the user types into the input.
Texts == { <<>>, <<" ">>, <<"a", "b", "c">>, <<"5">>, <<"2", ".", "0">> }

\* The constructor.
Constructed(p, defaultValue) ==
  LET v == IF p.value.def THEN p.value.v
           ELSE IF defaultValue.def THEN defaultValue.v
           ELSE String(p.min)
  IN  /\ props = p
      /\ _lastValidValue = v
      /\ _precision = _calculatePrecision(p)
      /\ state = [isFocused |-> FALSE, value |-> v, keyboardSpinDirection |-> NotSpinning]
      /\ _async = [timeoutIds |-> {}, isDisposed |-> FALSE]
      /\ _currentStepFunctionHandle = -1
      /\ _spinningByMouse = FALSE
      /\ _valueToValidate = undefinedText
      /\ mounted = TRUE
      /\ elapsed = 0
      /\ lastStepBy = "none"

Init == \E p \in PropsSet, defaultValue \in DefaultValues : Constructed(p, defaultValue)

Next ==
  \/ componentWillUnmount
  \/ \E newProps \in PropsSet : UNSAFE_componentWillReceiveProps(newProps)
  \/ _onFocus
  \/ _onBlur
  \/ \E text \in Texts : _onInputChange(text)
  \/ \E key \in Keys : _handleKeyDown(key)
  \/ \E key \in Keys : _handleKeyUp(key)
  \/ _onIncrementMouseDown
  \/ _onDecrementMouseDown
  \/ MouseUpOrLeave
  \/ TimerCallback
  \/ Tick(_initialStepDelay)

Spec == Init /\ [][Next]_vars

\* The stepping engine under a fine-grained clock: the default props, the pointer and
\* key handlers, the timers, and time passing TickLen at a time.
InitTimed == Constructed(DefaultProps, undefinedText)

NextTimed ==
  \/ componentWillUnmount
  \/ \E key \in Keys : _handleKeyDown(key)
  \/ \E key \in Keys : _handleKeyUp(key)
  \/ _onIncrementMouseDown
  \/ _onDecrementMouseDown
  \/ MouseUpOrLeave
  \/ TimerCallback
  \/ Tick(TickLen)

SpecTimed == InitTimed /\ [][NextTimed]_vars

\* The default increment and decrement policies over a range of configurations and of
\* starting texts (given as defaultValue), applied by the arrow keys.
FnProps ==
  { [min |-> Number(mn), max |-> Number(mx), step |-> Number(st),
     precision |-> pr, disabled |-> FALSE, value |-> undefinedText,
     onValidate |-> "undefined", onIncrement |-> "undefined", onDecrement |-> "undefined"] :
      mn \in { <<"0">>, <<"-", "1">>, <<"1", ".", "4">> },
      mx \in { <<"3">>, <<"2", ".", "5">> },
      st \in { <<"1">>, <<"0", ".", "5">>, <<"2">> },
      pr \in { undefinedNumber, Some(0), Some(1) } }

FnValues ==
  { <<"0">>, <<"1">>, <<"2">>, <<"3">>, <<"0", ".", "5">>, <<"1", ".", "4">>,
    <<"2", ".", "5">>, <<"-", "1">>, <<"5">>, <<"2", ".", "0">>, <<>>, <<"a", "b", "c">> }

InitFn == \E p \in FnProps, v \in FnValues : Constructed(p, Some(v))

NextFn == \E key \in {"up", "down"} : _handleKeyDown(key)

SpecFn == InitFn /\ [][NextFn]_vars

\* The handlers of the input, the increment button and its timers, under configurations
\* that differ in disabled and in the controlled value.
InputProps ==
  { DefaultProps,
    [DefaultProps EXCEPT !.disabled = TRUE],
    [DefaultProps EXCEPT !.value = Some(<<"2">>)] }

InputTexts == { <<"a", "b", "c">>, <<"5">> }

InitInput == \E p \in InputProps : Constructed(p, undefinedText)

NextInput ==
  \/ \E newProps \in InputProps : UNSAFE_componentWillReceiveProps(newProps)
  \/ _onBlur
  \/ \E text \in InputTexts : _onInputChange(text)
  \/ \E key \in Keys : _handleKeyDown(key)
  \/ \E key \in Keys : _handleKeyUp(key)
  \/ _onIncrementMouseDown
  \/ MouseUpOrLeave
  \/ TimerCallback
  \/ Tick(_initialStepDelay)

SpecInput == InitInput /\ [][NextInput]_vars

\* The input's handlers where the caller may supply onValidate.
ValidateProps ==
  { DefaultProps,
    [DefaultProps EXCEPT !.onValidate = "declines"],
    [DefaultProps EXCEPT !.onValidate = "accepts"] }

InitValidate == \E p \in ValidateProps : Constructed(p, undefinedText)

NextValidate ==
  \/ _onFocus
  \/ _onBlur
  \/ \E text \in Texts : _onInputChange(text)
  \/ \E key \in Keys : _handleKeyDown(key)
  \/ \E key \in Keys : _handleKeyUp(key)

SpecValidate == InitValidate /\ [][NextValidate]_vars

\* The stepping handlers and the timers where the caller may supply onIncrement and
\* onDecrement.
HookProps ==
  { DefaultProps,
    [DefaultProps EXCEPT !.onIncrement = "declines", !.onDecrement = "declines"],
    [DefaultProps EXCEPT !.onIncrement = "accepts", !.onDecrement = "declines"],
    [DefaultProps EXCEPT !.onIncrement = "declines", !.onDecrement = "accepts"] }

InitHooks == \E p \in HookProps, defaultValue \in DefaultValues : Constructed(p, defaultValue)

NextHooks ==
  \/ \E key \in Keys : _handleKeyDown(key)
  \/ \E key \in Keys : _handleKeyUp(key)
  \/ _onIncrementMouseDown
  \/ _onDecrementMouseDown
  \/ MouseUpOrLeave
  \/ TimerCallback
  \/ Tick(_initialStepDelay)

SpecHooks == InitHooks /\ [][NextHooks]_vars

\* The precision under configurations that differ in step and in the explicit precision,
\* which the props updates exchange and the arrow keys use.
PrecisionProps ==
  { [DefaultProps EXCEPT !.step = Number(st), !.precision = pr] :
      st \in { <<"1">>, <<"0", ".", "5">>, <<"1", "0">> },
      pr \in { undefinedNumber, Some(0), Some(1), Some(-1) } }

InitPrecision ==
  \E p \in PrecisionProps, defaultValue \in DefaultValues : Constructed(p, defaultValue)

NextPrecision ==
  \/ \E newProps \in PrecisionProps : UNSAFE_componentWillReceiveProps(newProps)
  \/ \E key \in {"up", "down"} : _handleKeyDown(key)

SpecPrecision == InitPrecision /\ [][NextPrecision]_vars

\* A button held down and never released: one pointer-down on either button, in
\* uncontrolled mode with the default policies and the precision derived from the step,
\* from a numeric starting text; afterwards only time passes and the repeat fires.
\* setTimeout callbacks run once their delay is over, which the fairness states.
HoldProps == { p \in FnProps : ~p.precision.def }

HoldValues == { v \in FnValues : Len(trim(v)) > 0 /\ ~isNaN(Number(v)) }

InitHold == \E p \in HoldProps, v \in HoldValues : Constructed(p, Some(v))

HoldIncrement ==
  /\ _currentStepFunctionHandle = -1
  /\ _onIncrementMouseDown

HoldDecrement ==
  /\ _currentStepFunctionHandle = -1
  /\ _onDecrementMouseDown

NextHold ==
  \/ HoldIncrement
  \/ HoldDecrement
  \/ TimerCallback
  \/ Tick(_initialStepDelay)

SpecHold ==
  /\ InitHold
  /\ [][NextHold]_vars
  /\ WF_vars(TimerCallback)
  /\ WF_vars(Tick(_initialStepDelay))

\* ------------------------------------------------------------------ claims

Uncontrolled == ~props.value.def

\* The text is one the default validator takes for a number.
IsNumericText(t) == Len(trim(t)) > 0 /\ ~isNaN(Number(t))

InRange(n) == NumLE(props.min, n) /\ NumLE(n, props.max)

\* C1: in every reachable state at most one scheduled repeat callback is outstanding.
C1_AtMostOneRepeat == Cardinality(_async.timeoutIds) <= 1

\* C2: once stop() has run (the handle is back to -1) no repeat fires until a later
\* pointer-down; and stop() leaves no timer under the handle and the spin direction None.
C2_NoRepeatAfterStop ==
  [][ /\ _currentStepFunctionHandle = -1 => ~TimerCallback
      /\ MouseUpOrLeave =>
           /\ _currentStepFunctionHandle' = -1
           /\ ~_spinningByMouse'
           /\ state'.keyboardSpinDirection = NotSpinning ]_vars

\* C3: after the component is unmounted no repeat callback fires and the displayed
\* value, _lastValidValue and the spin direction never change again.
C3_NoMutationAfterUnmount ==
  [][ ~mounted =>
        /\ ~TimerCallback
        /\ state' = state
        /\ _lastValidValue' = _lastValidValue
        /\ _spinningByMouse' = _spinningByMouse ]_vars

\* Unmounted while the repeat of a pointer hold was pending.
C3_Witness == ~mounted /\ _spinningByMouse /\ _currentStepFunctionHandle >= 0

C5_ClampInvariant ==
  IsNumericText(value) =>
    /\ NumLE(Number(_defaultOnIncrement(value).v), props.max)
    /\ NumGE(Number(_defaultOnDecrement(value).v), props.min)

\* C6: after any sequence of events _lastValidValue is a numeric string (the first thing
\* the claim asks of it; that its value lies within [min, max] asks more).
C6_LastValidIsNumeric == IsNumericText(_lastValidValue)

\* C7: uncontrolled, a blur with pending text that is empty, blank or not a number
\* never leaves text of that kind displayed.
C7_InvalidTextReverted ==
  [][ ( /\ _onBlur
        /\ Uncontrolled
        /\ _valueToValidate.def
        /\ ~IsNumericText(_valueToValidate.v) )
      => IsNumericText(state'.value) ]_vars

\* C8: uncontrolled, Enter or a blur with a numeric text n typed and displayed commits
\* min(max, max(min, n)): the displayed value and _lastValidValue become that number
\* as a string.
C8_TypedNumberCommitsClamped ==
  [][ ( /\ _onBlur \/ (_handleKeyDown("enter") /\ ~props.disabled)
        /\ Uncontrolled
        /\ _valueToValidate.def
        /\ state.value = _valueToValidate.v
        /\ IsNumericText(_valueToValidate.v) )
      => LET n == String(MathMin(props.max, MathMax(props.min, Number(_valueToValidate.v))))
         IN  state'.value = n /\ _lastValidValue' = n ]_vars

\* C9: uncontrolled, a Down arrow key-down on a displayed value within [min, max] never
\* displays a value below min, and at min leaves the value at min.
C9_DownNeverBelowMin ==
  [][ ( /\ _handleKeyDown("down")
        /\ Uncontrolled
        /\ ~props.disabled
        /\ IsNumericText(state.value)
        /\ InRange(Number(state.value)) )
      => /\ NumGE(Number(state'.value), props.min)
         /\ NumEq(Number(state.value), props.min) => NumEq(Number(state'.value), props.min) ]_vars

\* decrement(increment(v)) equals v up to rounding at the precision.
RoundTrip ==
  NumEq(Number(_defaultOnDecrement(_defaultOnIncrement(value).v).v),
        precisionRound(Number(value), _precision))

\* C10 as stated: for every numeric v within [min, max] and every step,
\* decrement(increment(v)) equals v up to rounding at the precision.
C10_RoundTripAsStated == (IsNumericText(value) /\ InRange(Number(value))) => RoundTrip

\* C10 as amended: the same for v with v + step <= max and a step that is a whole
\* multiple of 10^-precision.
C10_RoundTripBelowMax ==
  ( /\ IsNumericText(value)
    /\ InRange(Number(value))
    /\ NumLE(NumAdd(Number(value), props.step), props.max)
    /\ precisionRound(props.step, _precision) = props.step )
  => RoundTrip

\* An increment by a fractional step was just applied, and its result is a value the
\* amended claim covers.
C10_Witness ==
  /\ state.keyboardSpinDirection = KeyboardSpinDirection.up
  /\ props.step = Number(<<"0", ".", "5">>)
  /\ IsNumericText(value)
  /\ InRange(Number(value))
  /\ NumLE(NumAdd(Number(value), props.step), props.max)
  /\ precisionRound(props.step, _precision) = props.step

\* The guard of _validate under which the validator is called with the pending text.
ValidatorCalled == _valueToValidate.def /\ _valueToValidate.v # _lastValidValue

\* The key-down of Enter on an enabled component, which validates.
EnterKeyDown == ~props.disabled /\ _handleKeyDown("enter")

\* C11: a blur or an Enter that hands the pending text to the validator (the default one
\* or the caller's) leaves no pending text behind, so that the next blur or Enter does
\* not validate the same text again.
C11_PendingConsumedOnce ==
  [][ (_onBlur \/ EnterKeyDown) /\ ValidatorCalled => ~_valueToValidate'.def ]_vars

\* C12: when the input gains focus, a spin that was active, by the pointer or by the
\* keyboard, is stopped: after the focus handler no repeat callback is scheduled and the
\* spin direction is None; and the component is focused.
C12_FocusStopsSpin ==
  [][ _onFocus =>
        /\ state'.isFocused
        /\ (_spinningByMouse \/ state.keyboardSpinDirection # NotSpinning
              => /\ _async'.timeoutIds = {}
                 /\ state'.keyboardSpinDirection = NotSpinning) ]_vars

\* The key-down of Escape on an enabled component.
EscapeKeyDown == ~props.disabled /\ _handleKeyDown("escape")

\* What Escape is to do: the displayed value, the text the state holds, becomes the
\* last valid value (nothing changes when they are equal), no timer is scheduled or
\* cancelled, and the last valid value stays.
EscapeReverts ==
  /\ state'.value = _lastValidValue'
  /\ (state.value = _lastValidValue => state'.value = state.value)
  /\ _async' = _async
  /\ _currentStepFunctionHandle' = _currentStepFunctionHandle
  /\ _lastValidValue' = _lastValidValue

\* C13 as stated: a key-down of Escape on an enabled component reverts the displayed
\* value to the last valid value, touches no timer and leaves the last valid value.
C13_EscapeAsStated == [][ EscapeKeyDown => EscapeReverts ]_vars

\* C13: in uncontrolled mode, a key-down of Escape on an enabled component reverts the
\* displayed value to the last valid value (changing nothing when they are equal),
\* neither schedules nor cancels a repeat, and leaves the last valid value unchanged;
\* in controlled mode the timers and the last valid value are left alone as well.
C13_EscapeUncontrolled ==
  [][ EscapeKeyDown =>
        /\ Uncontrolled => EscapeReverts /\ value' = _lastValidValue'
        /\ _async' = _async
        /\ _currentStepFunctionHandle' = _currentStepFunctionHandle
        /\ _lastValidValue' = _lastValidValue ]_vars

\* Typed text has been discarded while a repeat is pending: the pending text is still
\* "abc", the display shows the last valid number, and the timer is still there.
C13_Witness ==
  /\ Uncontrolled /\ ~props.disabled
  /\ _valueToValidate = Some(<<"a", "b", "c">>)
  /\ state.value = _lastValidValue
  /\ IsNumericText(_lastValidValue)
  /\ state.keyboardSpinDirection = NotSpinning
  /\ _spinningByMouse
  /\ _async.timeoutIds # {}

\* What stop() leaves behind: the handle reset, no timer under the handle it had, and
\* no spin, by the pointer or by the keyboard.
Stopped ==
  /\ _currentStepFunctionHandle' = -1
  /\ _currentStepFunctionHandle \notin TimerIds(_async'.timeoutIds)
  /\ ~_spinningByMouse'
  /\ state'.keyboardSpinDirection = NotSpinning

\* C14: when the component is disabled, a key-down of any key calls stop() and neither
\* steps nor validates: the displayed value, the last valid value and the pending text
\* stay as they are, and afterwards the spin direction is None.
C14_DisabledKeyDown ==
  [][ props.disabled /\ (\E key \in Keys : _handleKeyDown(key)) =>
        /\ Stopped
        /\ value' = value
        /\ _lastValidValue' = _lastValidValue
        /\ _valueToValidate' = _valueToValidate ]_vars

\* A disabled component with typed text still pending and displayed, after a stop that
\* left another repeat pending.
C14_Witness ==
  /\ props.disabled
  /\ _valueToValidate.def /\ state.value = _valueToValidate.v
  /\ _currentStepFunctionHandle = -1
  /\ ~_spinningByMouse
  /\ state.keyboardSpinDirection = NotSpinning
  /\ lastStepBy = "none"
  /\ _async.timeoutIds # {}

\* The key-down of an arrow key on an enabled component, which calls stepFunction.
ArrowKeyDown(key) == ~props.disabled /\ _handleKeyDown(key)

\* One application of stepFunction to the displayed value has been committed.
OneStepApplied(stepFunction) ==
  LET newValue == CallStep(stepFunction, value)
  IN  IF Truthy(newValue)
      THEN _lastValidValue' = newValue.v /\ state'.value = newValue.v
      ELSE _lastValidValue' = _lastValidValue /\ state'.value = state.value

NoTimerTouched ==
  /\ _async' = _async
  /\ _currentStepFunctionHandle' = _currentStepFunctionHandle

\* C15: on an enabled component a key-down of Up (Down) applies exactly one increment
\* (decrement) at once, schedules no repeat and sets the spin direction to Up (Down);
\* a key-up of Up or Down calls stop() and brings the spin direction back to None.
C15_ArrowKeyStepsOnce ==
  [][ /\ ArrowKeyDown("up") =>
           /\ OneStepApplied("_onIncrement")
           /\ NoTimerTouched
           /\ state'.keyboardSpinDirection = KeyboardSpinDirection.up
      /\ ArrowKeyDown("down") =>
           /\ OneStepApplied("_onDecrement")
           /\ NoTimerTouched
           /\ state'.keyboardSpinDirection = KeyboardSpinDirection.down
      /\ (\E key \in {"up", "down"} : _handleKeyUp(key)) => Stopped ]_vars

\* The Up arrow is held down after one step from "0", and nothing is scheduled.
C15_Witness ==
  /\ Uncontrolled /\ ~props.disabled
  /\ state.keyboardSpinDirection = KeyboardSpinDirection.up
  /\ state.value = <<"1">> /\ _lastValidValue = <<"1">>
  /\ ~_spinningByMouse
  /\ _async.timeoutIds = {}

\* C16: a raw text change stores the raw text as the pending text and as the displayed
\* value (the state's text, which is what uncontrolled mode renders) without validating:
\* the last valid value stays and no timer is scheduled or cancelled.
C16_TextChangeDefersValidation ==
  [][ \A text \in InputTexts :
        _onInputChange(text) =>
          /\ _valueToValidate' = Some(text)
          /\ state'.value = text
          /\ (Uncontrolled => value' = text)
          /\ _lastValidValue' = _lastValidValue
          /\ NoTimerTouched
          /\ _spinningByMouse' = _spinningByMouse ]_vars

\* Text typed while a pointer repeat is pending: it is displayed and pending, the last
\* valid value is another text, and the repeat is still scheduled.
C16_Witness ==
  /\ Uncontrolled
  /\ _valueToValidate.def /\ state.value = _valueToValidate.v
  /\ _valueToValidate.v # _lastValidValue
  /\ _spinningByMouse
  /\ _currentStepFunctionHandle \in TimerIds(_async.timeoutIds)

\* The number of digits after the decimal point of a number as JS prints it.
DecimalDigits(n) ==
  LET s   == String(n)
      dot == IndexOf(s, ".")
  IN  IF dot > 0 THEN Len(s) - dot ELSE 0

\* derivePrecision: the explicit precision when one is given, else the decimal digits
\* of step, which are never negative.
DerivePrecision(p) == IF p.precision.def THEN p.precision.v ELSE DecimalDigits(p.step)

\* C17 as stated: in every reachable state the stored precision is >= 0 and is
\* derivePrecision of the configuration supplied last.
C17_PrecisionAsStated == _precision >= 0 /\ _precision = DerivePrecision(props)

\* C17: in every reachable state the stored precision is derivePrecision of the
\* configuration supplied last, the explicit precision when one is given and else the
\* decimal digits of step floored at 0; it is >= 0 unless a negative explicit precision
\* is given.
C17_PrecisionFollowsConfig ==
  /\ _precision = DerivePrecision(props)
  /\ (~props.precision.def \/ props.precision.v >= 0 => _precision >= 0)

\* The step is now 10 and no precision is given, after a configuration whose step was
\* 0.5 left the value at 0.5: the precision has been derived again, floored at 0.
C17_Witness ==
  /\ props.step = Number(<<"1", "0">>) /\ ~props.precision.def
  /\ state.value = <<"0", ".", "5">>
  /\ _precision = 0

\* A step with stepFunction is taken: by its arrow key on an enabled component, by a
\* pointer-down on its button, or by a repeat of it firing.
KeyOf(stepFunction) == IF stepFunction = "_onIncrement" THEN "up" ELSE "down"

StepTaken(stepFunction) ==
  \/ ArrowKeyDown(KeyOf(stepFunction))
  \/ IF stepFunction = "_onIncrement" THEN _onIncrementMouseDown ELSE _onDecrementMouseDown
  \/ \E t \in _async.timeoutIds : t.stepFunction = stepFunction /\ TimerFire(t)

\* The caller supplies the function behind stepFunction and it returns nothing.
CallerDeclines(stepFunction) ==
  /\ IF stepFunction = "_onIncrement" THEN props.onIncrement # "undefined"
                                       ELSE props.onDecrement # "undefined"
  /\ ~CallStep(stepFunction, value).def

\* C18: when the caller's onIncrement (onDecrement) returns nothing, a step is a no-op,
\* whether a key, the pointer or a timer takes it: the displayed value and the last
\* valid value are unchanged by it.
C18_DeclinedStepIsNoOp ==
  [][ \A stepFunction \in {"_onIncrement", "_onDecrement"} :
        StepTaken(stepFunction) /\ CallerDeclines(stepFunction) =>
          /\ state'.value = state.value
          /\ value' = value
          /\ _lastValidValue' = _lastValidValue ]_vars

\* A repeat has fired under a caller's onIncrement and onDecrement that return nothing:
\* the displayed value and the last valid value are still the defaultValue.
C18_Witness ==
  /\ props.onIncrement = "declines" /\ props.onDecrement = "declines"
  /\ lastStepBy = "timer"
  /\ state.value = <<"2">>
  /\ _lastValidValue = <<"2">>

\* No raw text change has happened since the last Escape, step or commit: nothing is
\* pending, or the pending text is no longer the one displayed.
TypedTextSuperseded == ~_valueToValidate.def \/ _valueToValidate.v # state.value

\* C19: in uncontrolled mode, a blur or an Enter with no raw text change since the last
\* Escape, step or commit leaves the displayed value and the last valid value as they
\* are: typed text that Escape discarded or a step superseded is not committed later.
C19_DiscardedTextNotCommitted ==
  [][ (_onBlur \/ EnterKeyDown) /\ Uncontrolled /\ TypedTextSuperseded =>
        /\ state'.value = state.value
        /\ _lastValidValue' = _lastValidValue ]_vars

\* A key event, a pointer event or a repeat firing.
KeyPointerOrTimerEvent ==
  \/ \E key \in Keys : _handleKeyDown(key)
  \/ \E key \in Keys : _handleKeyUp(key)
  \/ _onIncrementMouseDown
  \/ _onDecrementMouseDown
  \/ MouseUpOrLeave
  \/ TimerCallback

\* C20: while the component is disabled no step is applied: neither a repeat firing nor
\* a key or pointer event changes the displayed value or the last valid value, also
\* when a pointer-hold repeat was pending as the component became disabled.
C20_NoStepWhileDisabled ==
  [][ props.disabled /\ KeyPointerOrTimerEvent =>
        /\ state'.value = state.value
        /\ _lastValidValue' = _lastValidValue ]_vars

\* The button of stepFunction is held: the spin by the pointer is on and a repeat of
\* stepFunction is scheduled.
HeldBy(stepFunction) ==
  /\ _spinningByMouse
  /\ \E t \in _async.timeoutIds : t.stepFunction = stepFunction

\* C21: in uncontrolled mode with the default policies, a step > 0 and a numeric
\* starting value, once the increment button is held and the repeat keeps firing, the
\* displayed value eventually equals max and stays there; and once the decrement
\* button is held, it eventually equals min and stays there.  (A button that is held
\* stays held, so "from some point on, held implies at the bound" says it.)
C21_HoldReachesBound ==
  <>[]( /\ HeldBy("_onIncrement") => NumEq(Number(state.value), props.max)
        /\ HeldBy("_onDecrement") => NumEq(Number(state.value), props.min) )

====
